---- MODULE Spec2Model ----
(***************************************************************************)
(* Model of the issue voting engine: the Vote ledger (models/Vote, second  *)
(* half of src/models/Issue.ts), the denormalized votes/votedBy fields of  *)
(* an Issue, and the POST /api/issues/[id]/vote handler                    *)
(* (src/unnamed/part_005), one action per awaited store operation.         *)
(***************************************************************************)
EXTENDS Integers, Sequences, FiniteSets, Bags, TLC

\* ------------------------------------------------------------------ bounds
MaxCalls == 2      \* POST /vote requests started in one behaviour
MaxAttempts == 2   \* runs of the withTransaction callback per request
MaxFaults == 1     \* store errors injected in one behaviour
MaxOps == 2        \* create, update and delete requests in one behaviour

Users == {"A", "B"}
IssueIds == {"X", "Y"}
Pairs == Users \X IssueIds

DUPLICATE_KEY == 11000   \* error.code tested by toggleVote's catch

VARIABLES
  issues,     \* ids of the Issue documents in the store
  votes,      \* Issue.votes, committed value, per issue id
  votedBy,    \* Issue.votedBy, committed array, per issue id
  ledger,     \* Vote collection: set of rows [id, userId, issueId]
  inflight,   \* bag of the requests being handled, each a record of
              \*   user, issue  user.id and params.id
              \*   pc           position in the handler
              \*   action       voteResult.action of the current callback run
              \*   attempts     runs of the withTransaction callback so far
              \*   toggles      toggleVote calls that returned a result
              \*   viaDup       the current toggleVote call took the 11000 branch
              \*   own          Issue.votes as written by the request's own update
  last,       \* the request answered last, with its response
  failed,     \* some request was answered with a status other than 200
  faults,     \* store errors injected so far
  calls,      \* requests started so far, per <<user, issue>>
  overlap,    \* some request started while another was in flight
  init0,      \* the store as it was in the initial state
  docs,       \* the other fields of the Issue documents, per issue id
  puts,       \* PUT /api/issues/[id] requests between findById and save
  gone,       \* ids of the issues deleted so far
  lastOp,     \* the create, update or delete request answered last
  ops,        \* create, update and delete requests started so far
  listing,    \* the issue-list query answered, with its response
  board,      \* the statistics request answered, with its response
  posted,     \* the create request answered last: its body and status
  clock,      \* Date.now(), milliseconds
  tracker,    \* otpRequestTracker: per email an entry or NoEntry
  unswept,    \* otpRequestTracker as it would be had no sweep ever run
  granted,    \* per email, the times of the checkOTPRateLimit calls that
              \*   returned true
  verdict,    \* the checkOTPRateLimit call made last and what it returned
  checks,     \* checkOTPRateLimit calls so far
  sweeps,     \* runs of the cleanup interval so far
  account,    \* the User document of one email address, or NoUser
  verifying,  \* verify-OTP requests between User.findOne and user.save()
  outcome,    \* the verify-OTP request answered last, with its response
  mailed,     \* the send-OTP request answered last, with its response
  sent,       \* send-OTP requests so far
  asked,      \* verify-OTP requests so far
  issue,      \* OTPs generated and saved so far
  wins        \* for each verify-OTP request answered 200, in order, the
              \*   number of OTPs saved when it read the user (read) and
              \*   when it was answered (at)

store == <<issues, votes, votedBy>>
hist == <<calls, overlap, init0>>
life == <<docs, puts, gone, lastOp, ops>>
limiter == <<clock, tracker, unswept, granted, verdict, checks, sweeps>>
signin == <<account, verifying, outcome, mailed, sent, asked, issue, wins>>
side == <<board, posted, limiter, signin>>
vars ==
  <<store, ledger, inflight, last, failed, faults, hist, life, listing, side>>

\* --------------------------------------------------------- array helpers
\* Array.prototype.includes on votedBy
Includes(s, u) == \E k \in 1..Len(s) : s[k] = u

\* $addToSet: { votedBy: u }
AddToSet(s, u) == IF Includes(s, u) THEN s ELSE Append(s, u)

Pull_KeepsVoter(s, u) == s

\* $pull: { votedBy: u }
Pull(s, u) == SelectSeq(s, LAMBDA x : x # u)

NoDuplicates(s) == \A j, k \in 1..Len(s) : s[j] = s[k] => j = k

\* ---------------------------------------------------------- Vote ledger
Matching_AnyVoter(l, u, i) == {row \in l : row.issueId = i}

\* rows matched by the filter { userId, issueId }
Matching(l, u, i) == {row \in l : row.userId = u /\ row.issueId = i}

\* Vote.findOne({ userId, issueId }) / Vote.hasUserVoted
HasRow(l, u, i) == Matching(l, u, i) # {}

UniqueIndexRejects_NoIndex(l, u, i) == FALSE

\* the unique index { userId: 1, issueId: 1 } rejects a second row of a pair
UniqueIndexRejects(l, u, i) == HasRow(l, u, i)

FreshId(l) == CHOOSE n \in 1..(Cardinality(l) + 1) : \A row \in l : row.id # n

\* Vote.create({ userId, issueId }) once the index has accepted it
InsertRow(l, u, i) == l \cup {[id |-> FreshId(l), userId |-> u, issueId |-> i]}

\* Vote.deleteOne({ userId, issueId }): removes one matching row, if any
DeleteOne(l, u, i) ==
  IF Matching(l, u, i) = {} THEN l
  ELSE l \ {CHOOSE row \in Matching(l, u, i) : TRUE}

\* ------------------------------------------------------------ Issue store
\* the update document chosen by the callback from voteResult.action
IncOf(a) == IF a = "added" THEN 1 ELSE -1

ApplyVotedBy(a, s, u) == IF a = "added" THEN AddToSet(s, u) ELSE Pull(s, u)

Running == BagToSet(inflight)

\* a transaction of another request holds an uncommitted write on issue i
\* (asked by a request that is itself before its update)
WriteLocked(i) ==
  i \in issues /\ \E q \in Running : q.pc = "commit" /\ q.issue = i

NewReq(u, i) == [user |-> u, issue |-> i, pc |-> "find", action |-> "none",
                 attempts |-> 1, toggles |-> 0, viaDup |-> FALSE, own |-> 0]

NoLast == [user |-> "A", issue |-> "X", status |-> 0, votes |-> 0,
           hasVoted |-> FALSE, attempts |-> 0, toggles |-> 0, viaDup |-> FALSE,
           action |-> "none", own |-> 0]

RECURSIVE SumOver(_, _)
SumOver(f, S) ==
  IF S = {} THEN 0
  ELSE LET x == CHOOSE y \in S : TRUE IN f[x] + SumOver(f, S \ {x})

TotalCalls == SumOver(calls, Pairs)

\* ------------------------------------------------------- Issue documents
Statuses == {"pending", "in-progress", "resolved"}
Roles == {"user", "admin"}

TITLE_MIN == 5   \* minlength of IssueSchema.title

\* strings are sequences of characters
Roads == <<"r", "o", "a", "d", "s">>
Lamps == <<"l", "a", "m", "p", "s">>

\* the fields of an Issue document other than votes and votedBy (description
\* and priority are written and filtered exactly as title and category are);
\* resolvedAt 0 is an unset resolvedAt, a positive value the time of a stamp
\* n characters
Text(n) == [k \in 1..n |-> "a"]

PhotoUrl == <<"h", "t", "t", "p", ":", "/", "/", "a", "/", "b", ".", "p", "n", "g">>

\* location is the place of the coordinates as the $near filter sees it
NoDoc == [reportedBy |-> "A", status |-> "pending", resolvedAt |-> 0,
          title |-> Roads, category |-> "safety", assignedTo |-> "none",
          location |-> "here", description |-> Text(10),
          priority |-> "medium", coordinates |-> <<0, 0>>,
          address |-> Text(1), images |-> <<>>]

DocFields == DOMAIN NoDoc

\* new Issue({...}) of the create handler
NewDoc(u, t, c) == [NoDoc EXCEPT !.reportedBy = u, !.title = t, !.category = c]

\* the body of a create request that passes every check
GoodBody ==
  [title |-> Roads, description |-> Text(10), category |-> "safety",
   priority |-> "absent", coordinates |-> <<0, 0>>, address |-> Text(1),
   images |-> <<>>]

\* Issue.findById(id): the document as loaded into memory
Load(i) ==
  [f \in DocFields \cup {"votes", "votedBy"} |->
     IF f = "votes" THEN votes[i]
     ELSE IF f = "votedBy" THEN votedBy[i]
     ELSE docs[i][f]]

DocOf(m) == [f \in DocFields |-> m[f]]

\* String.prototype.trim
RECURSIVE TrimStart(_)
TrimStart(s) ==
  IF s # <<>> /\ Head(s) = " " THEN TrimStart(Tail(s)) ELSE s

RECURSIVE TrimEnd(_)
TrimEnd(s) ==
  IF s # <<>> /\ s[Len(s)] = " " THEN TrimEnd(SubSeq(s, 1, Len(s) - 1)) ELSE s

Trim(s) == TrimEnd(TrimStart(s))

\* JavaScript truthiness of a body field: "absent" is undefined, "empty" is
\* null or the empty string; for a string field <<>> stands for both
Truthy(v) == v \notin {"absent", "empty"}

\* the system-managed fields a request body may carry besides the six the
\* update handler reads
NoSys == [given |-> FALSE, votes |-> 0, votedBy |-> <<>>, resolvedAt |-> 0]
Forged == [given |-> TRUE, votes |-> 5, votedBy |-> <<"B">>, resolvedAt |-> 9]

NoBody == [title |-> <<>>, category |-> "absent", status |-> "absent",
           assignedTo |-> "absent", sys |-> NoSys]

\* request bodies of PUT /api/issues/[id]
Bodies ==
  { [NoBody EXCEPT !.title = <<" ">> \o Lamps \o <<" ">>, !.category = "other"],
    [NoBody EXCEPT !.title = <<" ", "h", "i">>],
    [NoBody EXCEPT !.title = Lamps, !.sys = Forged],
    [NoBody EXCEPT !.status = "resolved", !.title = Lamps, !.sys = Forged],
    [NoBody EXCEPT !.status = "in-progress"],
    [NoBody EXCEPT !.assignedTo = "B"],
    [NoBody EXCEPT !.assignedTo = "empty", !.title = Lamps] }

Permitted_Anyone(isOwner, isAdmin) == TRUE

\* PUT line 266, DELETE line 382: the owner or an administrator
Permitted(isOwner, isAdmin) == isOwner \/ isAdmin

\* PUT line 274: (status || assignedTo) && !isAdmin
AdminOnly(body, isAdmin) ==
  (Truthy(body.status) \/ Truthy(body.assignedTo)) /\ ~isAdmin

ApplyBody_AssignAll(m, body, isOwner, isAdmin) ==
  LET m1 == IF body.title # <<>> THEN [m EXCEPT !.title = Trim(body.title)]
            ELSE m
      m2 == IF Truthy(body.status) /\ isAdmin
              THEN [m1 EXCEPT !.status = body.status] ELSE m1
  IN IF body.sys.given
       THEN [m2 EXCEPT !.votes = body.sys.votes, !.votedBy = body.sys.votedBy,
                       !.resolvedAt = body.sys.resolvedAt]
       ELSE m2

\* PUT lines 249 and 285-292: the six fields read from the body are assigned
\* to the loaded document
ApplyBody(m, body, isOwner, isAdmin) ==
  LET m1 == IF body.title # <<>> /\ (isOwner \/ isAdmin)
              THEN [m EXCEPT !.title = Trim(body.title)] ELSE m
      m2 == IF Truthy(body.category) /\ (isOwner \/ isAdmin)
              THEN [m1 EXCEPT !.category = body.category] ELSE m1
      m3 == IF Truthy(body.status) /\ isAdmin
              THEN [m2 EXCEPT !.status = body.status] ELSE m2
      m4 == IF body.assignedTo # "absent" /\ isAdmin
              THEN [m3 EXCEPT !.assignedTo =
                      IF Truthy(body.assignedTo) THEN body.assignedTo
                      ELSE "none"]
              ELSE m3
  IN m4

\* IssueSchema.pre('save')
PreSave(statusModified, m, now) ==
  IF statusModified
    THEN IF m.status = "resolved" /\ m.resolvedAt = 0
           THEN [m EXCEPT !.resolvedAt = now]
           ELSE IF m.status # "resolved"
                  THEN [m EXCEPT !.resolvedAt = 0]
                  ELSE m
    ELSE m

TITLE_MAX == 100       \* maxlength of IssueSchema.title
DESCRIPTION_MIN == 10  \* minlength of IssueSchema.description
DESCRIPTION_MAX == 1000
ADDRESS_MAX == 200     \* maxlength of IssueSchema.address
LNG_MAX == 180
LAT_MAX == 90

Categories ==
  {"infrastructure", "sanitation", "safety", "environment", "transportation",
   "other"}
Priorities == {"low", "medium", "high", "urgent"}

InRange_Any(coords) == Len(coords) = 2

\* longitude and latitude within their ranges
InRange(coords) ==
  /\ Len(coords) = 2
  /\ coords[1] >= -LNG_MAX /\ coords[1] <= LNG_MAX
  /\ coords[2] >= -LAT_MAX /\ coords[2] <= LAT_MAX

\* the letters of the extensions, as the i flag of the pattern folds them
LowerCase(c) ==
  LET upper == <<"H", "T", "P", "S", "J", "G", "E", "N", "W", "B", "I", "F">>
      lower == <<"h", "t", "p", "s", "j", "g", "e", "n", "w", "b", "i", "f">>
  IN IF \E k \in DOMAIN upper : upper[k] = c
       THEN lower[CHOOSE k \in DOMAIN upper : upper[k] = c]
       ELSE c

ImageExtensions ==
  {<<"j", "p", "g">>, <<"j", "p", "e", "g">>, <<"p", "n", "g">>, <<"w", "e", "b", "p">>, <<"g", "i", "f">>}

EndsWith(s, tail) ==
  Len(s) >= Len(tail) /\ SubSeq(s, Len(s) - Len(tail) + 1, Len(s)) = tail

StartsWith(s, head) == Len(s) >= Len(head) /\ SubSeq(s, 1, Len(head)) = head

\* /^https?:\/\/.+\.(jpg|jpeg|png|webp|gif)$/i
MatchesImageUrl(url) ==
  LET low == [k \in DOMAIN url |-> LowerCase(url[k])]
  IN \E scheme \in {<<"h", "t", "t", "p", ":", "/", "/">>, <<"h", "t", "t", "p", "s", ":", "/", "/">>}, ext \in ImageExtensions :
       /\ StartsWith(low, scheme)
       /\ EndsWith(low, <<".">> \o ext)
       /\ Len(low) > Len(scheme) + Len(ext) + 1
       /\ \A k \in DOMAIN low : low[k] # "\n"

\* the schema validators (a required string must not be empty)
Valid(m) ==
  /\ Len(m.title) >= TITLE_MIN /\ Len(m.title) <= TITLE_MAX
  /\ m.status \in Statuses
  /\ Len(m.description) >= DESCRIPTION_MIN
  /\ Len(m.description) <= DESCRIPTION_MAX
  /\ m.category \in Categories
  /\ m.priority \in Priorities
  /\ InRange(m.coordinates)
  /\ m.address # <<>> /\ Len(m.address) <= ADDRESS_MAX
  /\ \A k \in DOMAIN m.images : MatchesImageUrl(m.images[k])

\* the paths of the in-memory document that differ from the loaded one
Modified(loaded, m) == {f \in DOMAIN m : m[f] # loaded[f]}

\* document.save() of a loaded document: $set of the modified paths only
SaveDelta(stored, loaded, m) ==
  [f \in DOMAIN stored |-> IF f \in Modified(loaded, m) THEN m[f] ELSE stored[f]]

\* new Date() at the save started by the request numbered last
SaveTime == ops + 1

\* Vote.getVotingStats() without a userId
GetVotingStats(l) ==
  [totalVotes |-> Cardinality(l),
   uniqueVoters |-> Cardinality({row.userId : row \in l}),
   uniqueIssues |-> Cardinality({row.issueId : row \in l})]

\* ------------------------------------------------------------------ Init
\* votedBy arrays the toggle produces on a consistent store (up to the names
\* of the users)
CleanArrays == {<<>>, <<"A">>, <<"A", "B">>}

LedgerOf(vb, is) ==
  LET pairs == {p \in Users \X is : Includes(vb[p[2]], p[1])}
      Rank(p) == Cardinality({q \in pairs :
                    \/ q[2] = "X" /\ p[2] = "Y"
                    \/ q[2] = p[2] /\ q[1] = "A" /\ p[1] = "B"}) + 1
  IN {[id |-> Rank(p), userId |-> p[1], issueId |-> p[2]] : p \in pairs}

NoOp == [kind |-> "none", code |-> 0, issue |-> "X", isOwner |-> FALSE,
         isAdmin |-> FALSE, mail |-> "none", old |-> "pending",
         want |-> "absent", sys |-> FALSE]

NoListing == [list |-> "none"]

\* no create, update, delete or list request has been received
NoBoard == [op |-> "none"]

NoPost == [code |-> 0]

Emails == {"a@x", "b@x"}

\* otpRequestTracker.get(email) is undefined
NoEntry == [count |-> 0, lastRequest |-> 0]

NoVerdict == [email |-> "none"]

\* a process that has just started: the rate-limit map is empty
RateIdle ==
  /\ clock = 0
  /\ tracker = [e \in Emails |-> NoEntry]
  /\ unswept = tracker
  /\ granted = [e \in Emails |-> <<>>]
  /\ verdict = NoVerdict
  /\ checks = 0
  /\ sweeps = 0

\* a missing otp, a missing User document
NoOtp == <<>>
NoUser == [exists |-> FALSE, id |-> 0, isVerified |-> FALSE, otp |-> NoOtp,
           otpExpires |-> 0]

NoOutcome == [status |-> 0]

\* no send-OTP or verify-OTP request received, no OTP stored
SigninStart(user) ==
  /\ account = user
  /\ verifying = {}
  /\ outcome = NoOutcome
  /\ mailed = NoOutcome
  /\ sent = 0
  /\ asked = 0
  /\ issue = 0
  /\ wins = <<>>

\* nothing asked of the other handlers
Quiet == board = NoBoard /\ posted = NoPost /\ RateIdle /\ SigninStart(NoUser)

Idle ==
  /\ Quiet
  /\ puts = {}
  /\ gone = {}
  /\ lastOp = NoOp
  /\ ops = 0
  /\ listing = NoListing

VoteInit ==
  /\ issues = {"X"}
  /\ votedBy \in [IssueIds -> CleanArrays]
  /\ \A i \in IssueIds \ issues : votedBy[i] = <<>>
  /\ votes = [i \in IssueIds |-> Len(votedBy[i])]
  /\ ledger = LedgerOf(votedBy, issues)
  /\ inflight = EmptyBag
  /\ last = NoLast
  /\ failed = FALSE
  /\ faults = 0
  /\ calls = [p \in Pairs |-> 0]
  /\ overlap = FALSE
  /\ init0 = [votes |-> votes, votedBy |-> votedBy, ledger |-> ledger]

Init ==
  /\ VoteInit
  /\ docs = [i \in IssueIds |-> NoDoc]
  /\ Idle

\* --------------------------------------------------------------- handler
\* request q moves on to its next await
Step(q, new) == inflight' = (inflight (-) SetToBag({q})) (+) SetToBag({new})

Answer(u, i, status, v, h, q) ==
  /\ last' = [user |-> u, issue |-> i, status |-> status, votes |-> v,
              hasVoted |-> h, attempts |-> q.attempts,
              toggles |-> q.toggles, viaDup |-> q.viaDup,
              action |-> q.action, own |-> q.own]
  /\ failed' = (failed \/ status # 200)

\* the handler returns its response (lines 72-81 or 90-101)
Finish(q, status, v, h) ==
  /\ inflight' = inflight (-) SetToBag({q})
  /\ Answer(q.user, q.issue, status, v, h, q)

Fail(q) == Finish(q, 500, 0, FALSE)

\* POST lines 15-35: a new request runs Issue.findById(id); 404 when the
\* issue is absent
PostFindIssue(u, i) ==
  /\ TotalCalls < MaxCalls
  /\ calls' = [calls EXCEPT ![<<u, i>>] = @ + 1]
  /\ overlap' = (overlap \/ inflight # EmptyBag)
  /\ IF i \in issues
       THEN /\ inflight' = inflight (+) SetToBag({NewReq(u, i)})
            /\ UNCHANGED <<last, failed>>
       ELSE /\ Answer(u, i, 404, 0, FALSE, [NewReq(u, i) EXCEPT !.attempts = 0])
            /\ inflight' = inflight
  /\ UNCHANGED <<store, ledger, faults, init0>>
  /\ UNCHANGED <<life, listing, side>>

\* toggleVote line 339: existingVote = findOne({ userId, issueId })
ToggleFindOne ==
  \E q \in Running :
    /\ q.pc = "find"
    /\ Step(q, [q EXCEPT !.pc =
          IF HasRow(ledger, q.user, q.issue) THEN "delete" ELSE "create"])
    /\ UNCHANGED <<store, ledger, last, failed, faults, hist>>
    /\ UNCHANGED <<life, listing, side>>

\* toggleVote lines 341-344: deleteOne, return 'removed'
ToggleDelete ==
  \E q \in Running :
    /\ q.pc = "delete"
    /\ ledger' = DeleteOne(ledger, q.user, q.issue)
    /\ Step(q, [q EXCEPT !.pc = "update", !.action = "removed",
                         !.toggles = @ + 1])
    /\ UNCHANGED <<store, last, failed, faults, hist>>
    /\ UNCHANGED <<life, listing, side>>

IsDuplicateKey_Never(code) == FALSE

\* toggleVote line 351: error.code === 11000
IsDuplicateKey(code) == code = DUPLICATE_KEY

\* toggleVote lines 345-353: create, return 'added'.  A duplicate key error
\* of the unique index is thrown into the catch at line 350, which tests the
\* code and reads the row again (findOne, line 353; the row it returns only
\* fills the 'vote' field of the result); any other code is thrown on, the
\* handler answers 500
ToggleCreate ==
  \E q \in Running :
    /\ q.pc = "create"
    /\ IF UniqueIndexRejects(ledger, q.user, q.issue)
         THEN /\ IF IsDuplicateKey(DUPLICATE_KEY)
                   THEN /\ Step(q, [q EXCEPT !.pc = "catchDelete",
                                             !.viaDup = TRUE])
                        /\ UNCHANGED <<last, failed>>
                   ELSE Fail(q)
              /\ ledger' = ledger
         ELSE /\ ledger' = InsertRow(ledger, q.user, q.issue)
              /\ Step(q, [q EXCEPT !.pc = "update", !.action = "added",
                                   !.toggles = @ + 1])
              /\ UNCHANGED <<last, failed>>
    /\ UNCHANGED <<store, faults, hist>>
    /\ UNCHANGED <<life, listing, side>>

\* toggleVote lines 354-355: deleteOne, return 'removed'
CatchDelete ==
  \E q \in Running :
    /\ q.pc = "catchDelete"
    /\ ledger' = DeleteOne(ledger, q.user, q.issue)
    /\ Step(q, [q EXCEPT !.pc = "update", !.action = "removed",
                         !.toggles = @ + 1])
    /\ UNCHANGED <<store, last, failed, faults, hist>>
    /\ UNCHANGED <<life, listing, side>>

\* a store error (any code but 11000) thrown by a ledger operation of
\* toggleVote: from the try block it passes the catch (line 357: throw
\* error), from the catch block it leaves directly; the callback fails
\* without a TransientTransactionError label, withTransaction aborts and
\* rethrows, and the handler's catch answers 500 (lines 87-101)
LedgerFault ==
  \E q \in Running :
    /\ q.pc \in {"find", "delete", "create", "catchDelete"}
    /\ ~IsDuplicateKey(1)
    /\ faults < MaxFaults
    /\ faults' = faults + 1
    /\ Fail(q)
    /\ UNCHANGED <<store, ledger, hist>>
    /\ UNCHANGED <<life, listing, side>>

\* session.withTransaction (line 41) after a failure that carries the
\* TransientTransactionError label: the transaction is aborted and the whole
\* callback, Vote.toggleVote included, is run again; when no run is left the
\* error is thrown to the handler's catch, which answers 500
RetryCallback(q) ==
  IF q.attempts < MaxAttempts
    THEN /\ Step(q, [q EXCEPT !.pc = "find", !.attempts = @ + 1,
                              !.action = "none", !.viaDup = FALSE])
         /\ UNCHANGED <<last, failed>>
    ELSE Fail(q)

\* lines 46-64: Issue.findByIdAndUpdate(id, {$inc, $addToSet | $pull},
\* { session }): the write is staged in the transaction of this request
IssueUpdate ==
  \E q \in Running :
    /\ q.pc = "update"
    /\ ~WriteLocked(q.issue)
    /\ Step(q, [q EXCEPT !.pc = "commit"])
    /\ UNCHANGED <<store, ledger, last, failed, faults, hist>>
    /\ UNCHANGED <<life, listing, side>>

\* the same write while another transaction holds an uncommitted write on
\* the document: WriteConflict, a TransientTransactionError
UpdateConflict ==
  \E q \in Running :
    /\ q.pc = "update"
    /\ WriteLocked(q.issue)
    /\ RetryCallback(q)
    /\ UNCHANGED <<store, ledger, faults, hist>>
    /\ UNCHANGED <<life, listing, side>>

\* a store error without the transient label thrown by findByIdAndUpdate
UpdateFault ==
  \E q \in Running :
    /\ q.pc = "update"
    /\ faults < MaxFaults
    /\ faults' = faults + 1
    /\ Fail(q)
    /\ UNCHANGED <<store, ledger, hist>>
    /\ UNCHANGED <<life, listing, side>>

\* line 65: the callback returned, withTransaction commits; the staged
\* update of the issue becomes visible
Commit ==
  \E q \in Running :
    /\ q.pc = "commit"
    /\ IF q.issue \in issues
         THEN /\ votes' = [votes EXCEPT ![q.issue] = @ + IncOf(q.action)]
              /\ votedBy' = [votedBy EXCEPT ![q.issue] =
                                ApplyVotedBy(q.action, @, q.user)]
         ELSE UNCHANGED <<votes, votedBy>>
    /\ Step(q, [q EXCEPT !.pc = "read", !.own = votes'[q.issue]])
    /\ UNCHANGED <<issues, ledger, last, failed, faults, hist>>
    /\ UNCHANGED <<life, listing, side>>

\* the commit fails with a TransientTransactionError: abort, staged update
\* discarded, callback run again
CommitFault ==
  \E q \in Running :
    /\ q.pc = "commit"
    /\ faults < MaxFaults
    /\ faults' = faults + 1
    /\ RetryCallback(q)
    /\ UNCHANGED <<store, ledger, hist>>
    /\ UNCHANGED <<life, listing, side>>

\* lines 67-81: updatedIssue = Issue.findById(id); the response reads
\* updatedIssue!.votes and updatedIssue!.votedBy.includes(user.id); a null
\* updatedIssue throws into the handler's catch (500)
ReadBack ==
  \E q \in Running :
    /\ q.pc = "read"
    /\ IF q.issue \in issues
         THEN Finish(q, 200, votes[q.issue], Includes(votedBy[q.issue], q.user))
         ELSE Fail(q)
    /\ UNCHANGED <<store, ledger, faults, hist>>
    /\ UNCHANGED <<life, listing, side>>

Next ==
  \/ \E u \in Users, i \in IssueIds : PostFindIssue(u, i)
  \/ ToggleFindOne
  \/ ToggleDelete
  \/ ToggleCreate
  \/ CatchDelete
  \/ LedgerFault
  \/ IssueUpdate
  \/ UpdateConflict
  \/ UpdateFault
  \/ Commit
  \/ CommitFault
  \/ ReadBack

Spec == Init /\ [][Next]_vars

\* ------------------------------------------------- create, update, delete
MailOutcomes == {"delivered", "failed", "threw"}

Reply(kind, code, i, isOwner, isAdmin, mail, old, want, sys) ==
  lastOp' = [kind |-> kind, code |-> code, issue |-> i, isOwner |-> isOwner,
             isAdmin |-> isAdmin, mail |-> mail, old |-> old, want |-> want,
             sys |-> sys]

\* the id given to a new document: one no document has or had
FreshIssueId == CHOOSE i \in IssueIds \ (issues \cup gone) : TRUE

\* POST /api/issues: the boundary check of the required fields, new Issue
\* with status 'pending', votes 0, votedBy [], then issue.save() (validation,
\* pre('save') on a new document: every path counts as modified)
\* (lines 101-127: required fields, location format, coordinate range)
CreateIssue(u, body) ==
  /\ ops < MaxOps
  /\ IssueIds \ (issues \cup gone) # {}
  /\ ops' = ops + 1
  /\ LET i == FreshIssueId
         missing == \/ body.title = <<>> \/ body.description = <<>>
                    \/ ~Truthy(body.category)
                    \/ body.coordinates = <<>> \/ body.address = <<>>
         new == [NewDoc(u, Trim(body.title), body.category) EXCEPT
                   !.description = Trim(body.description),
                   !.priority = IF body.priority = "absent" THEN "medium"
                                ELSE body.priority,
                   !.coordinates = body.coordinates,
                   !.address = Trim(body.address),
                   !.images = body.images]
         m == PreSave(TRUE, new, SaveTime')
         code == IF missing \/ ~InRange(body.coordinates) \/ ~Valid(m)
                   THEN 400 ELSE 201
     IN /\ posted' = [code |-> code, user |-> u, body |-> body, id |-> i]
        /\ Reply("create", code, i, TRUE, FALSE, "none", "pending", "absent",
                 FALSE)
        /\ IF code = 400
             THEN UNCHANGED <<store, docs>>
             ELSE /\ issues' = issues \cup {i}
                  /\ docs' = [docs EXCEPT ![i] = m]
                  /\ votes' = [votes EXCEPT ![i] = 0]
                  /\ votedBy' = [votedBy EXCEPT ![i] = <<>>]
  /\ UNCHANGED <<ledger, inflight, last, failed, faults, hist, puts, gone,
                 listing, board, limiter, signin>>

\* PUT lines 238-279: findById, 404, the two permission checks (403); a
\* request that passes them holds the loaded document
PutLoad(u, role, i, body) ==
  /\ ops < MaxOps
  /\ ops' = ops + 1
  /\ LET isOwner == i \in issues /\ docs[i].reportedBy = u
         isAdmin == role = "admin"
         Refuse(code) ==
           /\ Reply("put", code, i, isOwner, isAdmin, "none",
                    docs[i].status, body.status, body.sys.given)
           /\ puts' = puts
     IN IF i \notin issues THEN Refuse(404)
        ELSE IF ~Permitted(isOwner, isAdmin) THEN Refuse(403)
        ELSE IF AdminOnly(body, isAdmin) THEN Refuse(403)
        ELSE /\ puts' = puts \cup {[n |-> ops', user |-> u, issue |-> i,
                                    isOwner |-> isOwner, isAdmin |-> isAdmin,
                                    body |-> body, loaded |-> Load(i)]}
             /\ lastOp' = lastOp
  /\ UNCHANGED <<store, ledger, inflight, last, failed, faults, hist, docs,
                 gone, listing, side>>

StatusAfterMail_Propagates(mail) == IF mail = "threw" THEN 500 ELSE 200

\* PUT lines 297-320: the notification runs inside try/catch, its result is
\* not read; the response that follows is a success
StatusAfterMail(mail) == 200

\* PUT lines 281-320: the assignments, issue.save() (validation, pre('save'),
\* update of the modified paths; a document deleted meanwhile makes save
\* throw), the notification inside its own try/catch, the response
PutSave ==
  \E r \in puts :
    LET i == r.issue
        m == ApplyBody(r.loaded, r.body, r.isOwner, r.isAdmin)
        h == PreSave(m.status # r.loaded.status, m, SaveTime)
        out == SaveDelta(Load(i), r.loaded, h)
        notify == Truthy(r.body.status) /\ r.body.status # r.loaded.status
        Done(code, mail) ==
          Reply("put", code, i, r.isOwner, r.isAdmin, mail, r.loaded.status,
                r.body.status, r.body.sys.given)
    IN /\ puts' = puts \ {r}
       /\ IF ~Valid(m)
            THEN /\ Done(400, "none")
                 /\ UNCHANGED <<store, docs>>
          ELSE IF Modified(r.loaded, h) # {} /\ i \notin issues
            THEN /\ Done(500, "none")
                 /\ UNCHANGED <<store, docs>>
          ELSE /\ IF Modified(r.loaded, h) # {}
                    THEN /\ docs' = [docs EXCEPT ![i] = DocOf(out)]
                         /\ votes' = [votes EXCEPT ![i] = out.votes]
                         /\ votedBy' = [votedBy EXCEPT ![i] = out.votedBy]
                    ELSE UNCHANGED <<votes, votedBy, docs>>
               /\ issues' = issues
               /\ IF notify
                    THEN \E mail \in MailOutcomes :
                           Done(StatusAfterMail(mail), mail)
                    ELSE Done(200, "none")
       /\ UNCHANGED <<ledger, inflight, last, failed, faults, hist, gone, ops,
                      listing, side>>

LedgerAfterIssueDelete_Cascade(l, i) == {row \in l : row.issueId # i}

\* the Vote collection after DELETE /api/issues/[id]: the handler calls
\* Issue.findByIdAndDelete and nothing else
LedgerAfterIssueDelete(l, i) == l

\* DELETE lines 357-394: findById, 404, the permission check (403),
\* Issue.findByIdAndDelete.  The delete waits for a transaction that holds an
\* uncommitted write on the document
DeleteIssue(u, role, i) ==
  /\ ops < MaxOps
  /\ ops' = ops + 1
  /\ LET isOwner == i \in issues /\ docs[i].reportedBy = u
         isAdmin == role = "admin"
         Done(code) == Reply("delete", code, i, isOwner, isAdmin, "none",
                             docs[i].status, "absent", FALSE)
     IN IF i \notin issues
          THEN /\ Done(404)
               /\ UNCHANGED <<store, docs, gone, ledger>>
        ELSE IF ~Permitted(isOwner, isAdmin)
          THEN /\ Done(403)
               /\ UNCHANGED <<store, docs, gone, ledger>>
        ELSE /\ ~WriteLocked(i)
             /\ issues' = issues \ {i}
             /\ docs' = [docs EXCEPT ![i] = NoDoc]
             /\ votes' = [votes EXCEPT ![i] = 0]
             /\ votedBy' = [votedBy EXCEPT ![i] = <<>>]
             /\ gone' = gone \cup {i}
             /\ ledger' = LedgerAfterIssueDelete(ledger, i)
             /\ Done(200)
  /\ UNCHANGED <<inflight, last, failed, faults, hist, puts, listing,
               side>>

\* the documents the create and update handlers leave in the store
LifeDocs ==
  {[i \in IssueIds |-> IF i = "X" THEN d ELSE NoDoc] :
     d \in {NoDoc, [NoDoc EXCEPT !.status = "resolved", !.resolvedAt = 1]}}

InitLife ==
  /\ VoteInit
  /\ votes["X"] = 2
  /\ docs \in LifeDocs
  /\ Idle

NextLife ==
  \/ \E u \in Users, t \in {<<>>, Roads, <<"h", "i">>} :
       CreateIssue(u, [GoodBody EXCEPT !.title = t])
  \/ \E u \in Users, role \in Roles, i \in IssueIds, body \in Bodies :
       PutLoad(u, role, i, body)
  \/ PutSave
  \/ \E u \in Users, role \in Roles, i \in IssueIds : DeleteIssue(u, role, i)

SpecLife == InitLife /\ [][NextLife]_vars

\* image URLs a create request may carry
ShoutedUrl == <<"H", "T", "T", "P", "S", ":", "/", "/", "A", "/", "B", ".", "J", "P", "E", "G">>
BareUrl == <<"h", "t", "t", "p", ":", "/", "/", ".", "p", "n", "g">>
FtpUrl == <<"f", "t", "p", ":", "/", "/", "a", "/", "b", ".", "p", "n", "g">>
PdfUrl == <<"h", "t", "t", "p", ":", "/", "/", "a", "/", "b", ".", "p", "d", "f">>

\* bodies of create requests: GoodBody with one field changed
Creations ==
  {[GoodBody EXCEPT !.title = t] :
     t \in {<<>>, Text(TITLE_MIN - 1), Text(TITLE_MIN), Text(TITLE_MAX),
            Text(TITLE_MAX + 1), <<" ", " ">> \o Text(TITLE_MIN - 1)}}
  \cup {[GoodBody EXCEPT !.description = t] :
          t \in {<<>>, Text(DESCRIPTION_MIN - 1), Text(DESCRIPTION_MAX),
                 Text(DESCRIPTION_MAX + 1)}}
  \cup {[GoodBody EXCEPT !.category = c] : c \in {"absent", "other", "roads"}}
  \cup {[GoodBody EXCEPT !.priority = p] : p \in {"urgent", "asap"}}
  \cup {[GoodBody EXCEPT !.coordinates = c] :
          c \in {<<>>, <<0>>, <<200, 45>>, <<-181, 0>>, <<0, 91>>, <<0, -91>>,
                 <<LNG_MAX, LAT_MAX>>, <<-LNG_MAX, -LAT_MAX>>}}
  \cup {[GoodBody EXCEPT !.address = t] :
          t \in {<<>>, <<" ">>, Text(ADDRESS_MAX), Text(ADDRESS_MAX + 1)}}
  \cup {[GoodBody EXCEPT !.images = l] :
          l \in {<<PhotoUrl>>, <<ShoutedUrl>>, <<BareUrl>>, <<FtpUrl>>,
                 <<PhotoUrl, PdfUrl>>, [k \in 1..5 |-> PhotoUrl],
                 [k \in 1..6 |-> PhotoUrl]}}

InitCreate ==
  /\ issues \in {{}, {"X"}}
  /\ docs = [i \in IssueIds |-> NoDoc]
  /\ votes = [i \in IssueIds |-> IF i \in issues THEN 1 ELSE 0]
  /\ votedBy = [i \in IssueIds |-> IF i \in issues THEN <<"B">> ELSE <<>>]
  /\ ledger = {[id |-> 1, userId |-> "B", issueId |-> i] : i \in issues}
  /\ inflight = EmptyBag
  /\ last = NoLast
  /\ failed = FALSE
  /\ faults = 0
  /\ calls = [p \in Pairs |-> 0]
  /\ overlap = FALSE
  /\ init0 = [votes |-> votes, votedBy |-> votedBy, ledger |-> ledger]
  /\ Idle

NextCreate == \E u \in Users, body \in Creations : CreateIssue(u, body)

SpecCreate == InitCreate /\ [][NextCreate]_vars

\* ------------------------------------------------------------ issue lists
\* JavaScript numbers: an integer, NaN or Infinity
Num(n) == [k |-> "num", v |-> n]
NaN == [k |-> "nan", v |-> 0]
Infinity == [k |-> "inf", v |-> 0]

IsNum(a) == a.k = "num"

\* a < b
Lt(a, b) ==
  \/ IsNum(a) /\ IsNum(b) /\ a.v < b.v
  \/ IsNum(a) /\ b.k = "inf"

\* the truthiness of a number: neither 0 nor NaN
TruthyNum(a) == a.k = "inf" \/ (IsNum(a) /\ a.v # 0)

\* Math.ceil(n / l) for an integer n >= 0
CeilDiv(n, l) ==
  IF ~IsNum(l) THEN IF l.k = "inf" THEN Num(0) ELSE NaN
  ELSE IF l.v = 0 THEN IF n > 0 THEN Infinity ELSE NaN
  ELSE IF l.v > 0 THEN Num((n + l.v - 1) \div l.v)
  ELSE Num(-(n \div (-l.v)))

\* (page - 1) * limit
SkipOf(page, limit) ==
  IF IsNum(page) /\ IsNum(limit) THEN Num((page.v - 1) * limit.v) ELSE NaN

Digits == <<"0", "1", "2", "3", "4", "5", "6", "7", "8", "9">>

IsDigit(c) == \E n \in 1..10 : Digits[n] = c

DigitValue(c) == (CHOOSE n \in 1..10 : Digits[n] = c) - 1

\* the value of the longest prefix of digits of s, continuing from acc; seen
\* tells whether a digit was read
RECURSIVE ReadDigits(_, _, _)
ReadDigits(s, acc, seen) ==
  IF s # <<>> /\ IsDigit(Head(s))
    THEN ReadDigits(Tail(s), 10 * acc + DigitValue(Head(s)), TRUE)
    ELSE IF seen THEN Num(acc) ELSE NaN

Negate(a) == IF IsNum(a) THEN Num(-a.v) ELSE a

\* parseInt(s): leading blanks, a sign, then digits up to the first other
\* character; NaN when there is no digit
ParseInt(s) ==
  LET t == TrimStart(s)
  IN IF t # <<>> /\ Head(t) = "-" THEN Negate(ReadDigits(Tail(t), 0, FALSE))
     ELSE IF t # <<>> /\ Head(t) = "+" THEN ReadDigits(Tail(t), 0, FALSE)
     ELSE ReadDigits(t, 0, FALSE)

\* searchParams.get(name) || fallback: null and '' give the fallback
OrDefault(raw, fallback) == IF raw = <<>> THEN fallback ELSE raw

DEFAULT_LIMIT == 10
MAX_LIMIT == 50

\* part_004 line 39: if (filters.page < 1) filters.page = 1
ClampPage(page) == IF Lt(page, Num(1)) THEN Num(1) ELSE page

\* part_004 line 40: if (limit < 1 || limit > 50) filters.limit = 10
ClampLimit(limit) ==
  IF Lt(limit, Num(1)) \/ Lt(Num(MAX_LIMIT), limit) THEN Num(DEFAULT_LIMIT)
  ELSE limit

\* values of the page and limit parameters of a request (<<>>: not given)
RawNumbers ==
  { <<>>, <<"0">>, <<"1">>, <<"2">>, <<"3">>, <<"-", "1">>, <<"5", "0">>,
    <<"5", "1">>, <<"x">>, <<" ", "2", "x">> }

\* the filters of a list request: "absent" for a parameter not given; the
\* search term is a word, the location filter a circle (lat, lng, radius)
\* named by the place it covers
Filters ==
  [status : {"absent", "pending", "resolved"},
   category : {"absent", "safety"},
   search : {<<>>, Lamps},
   location : {"absent", "here"},
   sortBy : {"absent"},
   sortOrder : {"absent"}]

\* list requests that ask for an order
SortFilters ==
  [status : {"absent", "pending"},
   category : {"absent"},
   search : {<<>>},
   location : {"absent", "here"},
   sortBy : {"absent", "createdAt", "votes"},
   sortOrder : {"absent", "asc", "up"}]

\* the equality and $text conditions shared by countQuery (part_004 lines
\* 43-47), the admin query (part_003 lines 30-35) and findWithFilters
MatchesFields(d, f) ==
  /\ Truthy(f.status) => d.status = f.status
  /\ Truthy(f.category) => d.category = f.category
  /\ f.search # <<>> => d.title = f.search

\* the $near condition of findWithFilters (Issue.ts lines 221-231)
MatchesLocation(d, f) == Truthy(f.location) => d.location = f.location

\* Issue.countDocuments(countQuery) of the public list
CountQuery(f) == {i \in issues : MatchesFields(docs[i], f)}

\* the documents selected by Issue.findWithFilters(filters)
FindQuery(f) ==
  {i \in issues : MatchesFields(docs[i], f) /\ MatchesLocation(docs[i], f)}

\* the createdAt of a stored issue: Y was created after X
CreatedAt(i) == IF i = "X" THEN 1 ELSE 2

\* the value of the sort field of a stored issue
SortKey(i, sortBy) == IF sortBy = "votes" THEN votes[i] ELSE CreatedAt(i)

\* the sequences that hold every member of S once
Orderings(S) ==
  {s \in [1..Cardinality(S) -> S] :
     \A a, b \in DOMAIN s : a # b => s[a] # s[b]}

\* sortOrder === 'asc' ? 1 : -1
SortDirection(sortOrder) == IF sortOrder = "asc" THEN "asc" ELSE "desc"

\* sort({ [sortBy]: sortOrder }) with the defaults of the handlers
\* (sortBy || 'createdAt', sortOrder || 'desc'): the store may return
\* issues with equal keys in either order
Sorted(S, f) ==
  LET by == IF Truthy(f.sortBy) THEN f.sortBy ELSE "createdAt"
      dir == SortDirection(IF Truthy(f.sortOrder) THEN f.sortOrder ELSE "desc")
  IN {s \in Orderings(S) :
        \A a, b \in DOMAIN s :
          a < b => IF dir = "asc"
                     THEN SortKey(s[a], by) <= SortKey(s[b], by)
                     ELSE SortKey(s[a], by) >= SortKey(s[b], by)}

\* skip(n).limit(m) on a sorted result; limit 0 is no limit, a negative
\* limit counts as its absolute value
Page(seq, n, m) ==
  LET to == IF m = 0 THEN Len(seq)
            ELSE IF m < 0 THEN n - m ELSE n + m
      upto == IF to < Len(seq) THEN to ELSE Len(seq)
  IN SubSeq(seq, n + 1, upto)

Meta(list, raw, f, page, limit, total, data) ==
  LET totalPages == CeilDiv(total, limit)
  IN [list |-> list, code |-> 200, raw |-> raw, filters |-> f,
      currentPage |-> page,
      itemsPerPage |-> limit, totalItems |-> total,
      totalPages |-> totalPages, hasNextPage |-> Lt(page, totalPages),
      hasPrevPage |-> Lt(Num(1), page), data |-> data]

ListFailed(list, raw, f, page, limit) ==
  [list |-> list, code |-> 500, raw |-> raw, filters |-> f,
   currentPage |-> page,
   itemsPerPage |-> limit, totalItems |-> 0, totalPages |-> NaN,
   hasNextPage |-> FALSE, hasPrevPage |-> FALSE, data |-> <<>>]

\* GET /api/issues (part_004 lines 8-81).  A query with both $text and $near
\* is rejected by the store, the handler answers 500
ListIssues(rawPage, rawLimit, f) ==
  /\ listing.list = "none"
  /\ \E found \in Sorted(FindQuery(f), f) :
       LET page == ClampPage(ParseInt(OrDefault(rawPage, <<"1">>)))
           limit == ClampLimit(ParseInt(OrDefault(rawLimit, <<"1", "0">>)))
           total == Cardinality(CountQuery(f))
           raw == [page |-> rawPage, limit |-> rawLimit]
           data == IF TruthyNum(page) /\ TruthyNum(limit)
                     THEN Page(found, SkipOf(page, limit).v, limit.v)
                     ELSE found
       IN listing' =
            IF f.search # <<>> /\ Truthy(f.location)
              THEN ListFailed("public", raw, f, page, limit)
              ELSE Meta("public", raw, f, page, limit, total, data)
  /\ UNCHANGED <<store, ledger, inflight, last, failed, faults, hist, life,
               side>>

\* who calls an administrator-only route
Callers == {"none", "user", "admin"}

RequireAuth(caller) ==
  IF caller = "none" THEN "Authentication required" ELSE ""

RequireAdmin(caller) ==
  IF RequireAuth(caller) # "" THEN RequireAuth(caller)
  ELSE IF caller # "admin" THEN "Admin access required"
  ELSE ""

\* the catch blocks of the admin routes: both messages are answered 401
AdminErrorStatus(message) ==
  IF message = "Authentication required" \/ message = "Admin access required"
    THEN 401
    ELSE 500

\* the reply of the catch block of a list route to a thrown message
ListDenied(list, raw, f, message) ==
  [list |-> list, code |-> AdminErrorStatus(message), message |-> message,
   raw |-> raw, filters |-> f, data |-> <<>>]

\* GET /api/admin/issues (part_003 lines 9-87): requireAdmin, then no
\* location filter, page and limit used as parsed; the store rejects a
\* negative or NaN skip and a NaN limit, the handler answers 500
ListAdminIssues(caller, rawPage, rawLimit, f) ==
  /\ listing.list = "none"
  /\ f.location = "absent"
  /\ \E found \in Sorted(CountQuery(f), f) :
       LET denied == RequireAdmin(caller)
           page == ParseInt(OrDefault(rawPage, <<"1">>))
           limit == ParseInt(OrDefault(rawLimit, <<"2", "0">>))
           total == Cardinality(CountQuery(f))
           skip == SkipOf(page, limit)
           raw == [page |-> rawPage, limit |-> rawLimit, caller |-> caller]
       IN listing' =
            IF denied # ""
              THEN ListDenied("admin", raw, f, denied)
            ELSE IF ~IsNum(skip) \/ skip.v < 0
              THEN ListFailed("admin", raw, f, page, limit)
              ELSE Meta("admin", raw, f, page, limit, total,
                        Page(found, skip.v, limit.v))
  /\ UNCHANGED <<store, ledger, inflight, last, failed, faults, hist, life,
               side>>

\* stores the list requests are answered from
ListDocs ==
  LET a == NoDoc
      b == [NoDoc EXCEPT !.status = "resolved", !.resolvedAt = 1,
                         !.title = Lamps]
      c == [NoDoc EXCEPT !.location = "far", !.category = "other"]
  IN {[i \in IssueIds |-> IF i = "X" THEN x ELSE y] :
        x \in {a, b}, y \in {a, b, c}}

\* a store of issues nobody voted on, no request received
ListStore ==
  /\ issues \in {{}, {"X"}, {"X", "Y"}}
  /\ docs \in ListDocs
  /\ \A i \in IssueIds \ issues : docs[i] = NoDoc
  /\ votedBy = [i \in IssueIds |-> <<>>]
  /\ ledger = {}
  /\ inflight = EmptyBag
  /\ last = NoLast
  /\ failed = FALSE
  /\ faults = 0
  /\ calls = [p \in Pairs |-> 0]
  /\ overlap = FALSE
  /\ Idle

InitList ==
  /\ votes = [i \in IssueIds |-> 0]
  /\ ListStore
  /\ init0 = [votes |-> votes, votedBy |-> votedBy, ledger |-> ledger]

NextList ==
  \/ \E rawPage \in RawNumbers, rawLimit \in RawNumbers, f \in Filters :
       ListIssues(rawPage, rawLimit, f)
  \/ \E rawPage \in RawNumbers, rawLimit \in RawNumbers, f \in Filters :
       ListAdminIssues("admin", rawPage, rawLimit, f)

SpecList == InitList /\ [][NextList]_vars

\* values of page and limit in the requests that ask for an order
PageNumbers == {<<>>, <<"1">>, <<"2">>, <<"3">>, <<"x">>}

\* stores whose issues carry votes (the votes of X and Y may be equal)
InitPage ==
  /\ votes \in [IssueIds -> {0, 1}]
  /\ ListStore
  /\ \A i \in IssueIds \ issues : votes[i] = 0
  /\ init0 = [votes |-> votes, votedBy |-> votedBy, ledger |-> ledger]

NextPage ==
  \E rawPage \in PageNumbers, rawLimit \in PageNumbers, f \in SortFilters :
    ListIssues(rawPage, rawLimit, f)

SpecPage == InitPage /\ [][NextPage]_vars

\* ------------------------------------------------- double arithmetic
\* IEEE-754 doubles carry 53 significant bits.  A significand is kept as a
\* sequence of limbs of LIMB_BITS bits, least significant limb first, so that
\* no intermediate value leaves the 32-bit integers.
LIMB_BITS == 13
LIMBS == 4
Base == 2 ^ LIMB_BITS

\* the limbs of floor(rem * Base^n / t), least significant first, preceded
\* by the remainder of that division (rem < t)
RECURSIVE LongDivide(_, _, _)
LongDivide(rem, t, n) ==
  IF n = 0 THEN <<rem>>
  ELSE LET rest == LongDivide((rem * Base) % t, t, n - 1)
       IN <<Head(rest)>> \o Append(Tail(rest), (rem * Base) \div t)

\* a + c for limbs a and a small integer c; the top limb absorbs the carry
RECURSIVE AddSmall(_, _)
AddSmall(a, c) ==
  IF Len(a) = 1 THEN <<a[1] + c>>
  ELSE <<(a[1] + c) % Base>> \o AddSmall(Tail(a), (a[1] + c) \div Base)

\* a * c + carry for limbs a and a small integer c
RECURSIVE MulSmall(_, _, _)
MulSmall(a, c, carry) ==
  IF Len(a) = 1 THEN <<a[1] * c + carry>>
  ELSE <<(a[1] * c + carry) % Base>>
         \o MulSmall(Tail(a), c, (a[1] * c + carry) \div Base)

\* Math.round((r / t) * 100) in double arithmetic, for integers 0 <= r <= t,
\* 0 < t: the quotient is rounded to 53 bits (ties to even), so is the
\* product, and Math.round takes the nearest integer, a half rounding up
RoundedPercent(r, t) ==
  IF r = 0 THEN 0
  ELSE
    LET \* r / t = (r * 2^s / t) * 2^-s with 1 <= r * 2^s / t < 2
        s == CHOOSE n \in 0..LIMB_BITS :
               r * 2 ^ n >= t /\ (n = 0 \/ r * 2 ^ (n - 1) < t)
        scaled == r * 2 ^ s
        division == LongDivide(scaled % t, t, LIMBS)
        rem == Head(division)
        floorQ == Append(Tail(division), scaled \div t)
        upQ == 2 * rem > t \/ (2 * rem = t /\ floorQ[1] % 2 = 1)
        \* the significand of the quotient, an integer in 2^52 .. 2^53
        quotient == AddSmall(floorQ, IF upQ THEN 1 ELSE 0)
        product == MulSmall(quotient, 100, 0)
        \* the product has 59 or 60 bits: k bits are rounded away
        k == IF product[LIMBS + 1] < 2 ^ 7 THEN 6 ELSE 7
        low == product[1] % 2 ^ k
        kept == [product EXCEPT ![1] = product[1] - low]
        upP == \/ 2 * low > 2 ^ k
               \/ 2 * low = 2 ^ k /\ (product[1] \div 2 ^ k) % 2 = 1
        \* the product as a double is y * 2^-(52 + s)
        y == AddSmall(kept, IF upP THEN 2 ^ k ELSE 0)
        whole == y[LIMBS + 1] \div 2 ^ s
        half == IF s = 0 THEN y[LIMBS] \div 2 ^ (LIMB_BITS - 1)
                ELSE (y[LIMBS + 1] \div 2 ^ (s - 1)) % 2
    IN whole + half

\* ------------------------------------------------------------ statistics
\* requireAdmin (auth.ts lines 102-121) for a caller without a valid
\* session ("none"), a verified user or an administrator: the message of
\* the error thrown, "" when none is
RECURSIVE SumCounts(_)
SumCounts(groups) ==
  IF groups = {} THEN 0
  ELSE LET g == CHOOSE x \in groups : TRUE
       IN g.count + SumCounts(groups \ {g})

CountOf_Total(groups, status) == SumCounts(groups)

\* the count of the group of a status, 0 when the aggregation has no such
\* group
CountOf(groups, status) ==
  SumCounts({g \in groups : g._id = status})

\* Issue.getDashboardStats(userId): $match on reportedBy when a userId is
\* given, $group by status, then the counts rolled into the result
GetDashboardStats(userId) ==
  LET scope == {i \in issues : Truthy(userId) => docs[i].reportedBy = userId}
      groups == {[_id |-> s,
                  count |-> Cardinality({i \in scope : docs[i].status = s})] :
                   s \in {docs[i].status : i \in scope}}
  IN [totalIssues |-> SumCounts(groups),
      pendingIssues |-> CountOf(groups, "pending"),
      inProgressIssues |-> CountOf(groups, "in-progress"),
      resolvedIssues |-> CountOf(groups, "resolved")]

\* route.ts lines 71-74
ResolutionRate(issueStats) ==
  IF issueStats.totalIssues > 0
    THEN RoundedPercent(issueStats.resolvedIssues, issueStats.totalIssues)
    ELSE 0

StatsReply(op, caller, code, message, userId, issueStats, rate, votingStats) ==
  [op |-> op, caller |-> caller, code |-> code, message |-> message,
   userId |-> userId,
   totalIssues |-> issueStats.totalIssues,
   pendingIssues |-> issueStats.pendingIssues,
   inProgressIssues |-> issueStats.inProgressIssues,
   resolvedIssues |-> issueStats.resolvedIssues,
   resolutionRate |-> rate,
   totalVotes |-> votingStats.totalVotes,
   uniqueVoters |-> votingStats.uniqueVoters]

NoStats ==
  [totalIssues |-> 0, pendingIssues |-> 0, inProgressIssues |-> 0,
   resolvedIssues |-> 0]

\* GET /api/admin/stats (the user counts, the recent activity, the
\* breakdowns by category and priority and avgResolutionDays of the
\* response are left out)
AdminStats(caller) ==
  /\ board = NoBoard
  /\ LET denied == RequireAdmin(caller)
         issueStats == GetDashboardStats("absent")
     IN board' =
          IF denied # ""
            THEN StatsReply("admin", caller, AdminErrorStatus(denied), denied,
                            "absent", NoStats, 0, GetVotingStats({}))
            ELSE StatsReply("admin", caller, 200, "", "absent", issueStats,
                            ResolutionRate(issueStats), GetVotingStats(ledger))
  /\ UNCHANGED <<store, ledger, inflight, last, failed, faults, hist, life,
                 listing, posted, limiter, signin>>

\* Issue.getDashboardStats(userId) for the issues of one reporter
ReporterStats(userId) ==
  /\ board = NoBoard
  /\ board' = StatsReply("reporter", "user", 200, "", userId,
                         GetDashboardStats(userId), 0, GetVotingStats({}))
  /\ UNCHANGED <<store, ledger, inflight, last, failed, faults, hist, life,
                 listing, posted, limiter, signin>>

MaxIssues == 40

\* the issues of a store are numbered; the first p are pending, the next g
\* in progress, the last r resolved, and the reporters are all A or
\* alternate between A and B
StatDoc(n, p, g, alternate) ==
  [NoDoc EXCEPT
     !.status = IF n <= p THEN "pending"
                ELSE IF n <= p + g THEN "in-progress" ELSE "resolved",
     !.resolvedAt = IF n <= p + g THEN 0 ELSE 1,
     !.reportedBy = IF alternate /\ n % 2 = 0 THEN "B" ELSE "A"]

InitStats ==
  /\ \E p \in 0..MaxIssues :
       \E g \in 0..(MaxIssues - p) :
         \E r \in 0..(MaxIssues - p - g) :
           \E alternate \in BOOLEAN :
             /\ issues = 1..(p + g + r)
             /\ docs = [n \in 1..(p + g + r) |-> StatDoc(n, p, g, alternate)]
  /\ votes = [n \in issues |-> 0]
  /\ votedBy = [n \in issues |-> <<>>]
  /\ ledger = {}
  /\ inflight = EmptyBag
  /\ last = NoLast
  /\ failed = FALSE
  /\ faults = 0
  /\ calls = [p \in Pairs |-> 0]
  /\ overlap = FALSE
  /\ init0 = [votes |-> votes, votedBy |-> votedBy, ledger |-> ledger]
  /\ Idle

NextStats ==
  \/ \E caller \in Callers : AdminStats(caller)
  \/ \E userId \in Users : ReporterStats(userId)

SpecStats == InitStats /\ [][NextStats]_vars

\* the administrator-only routes, called by anybody
NextAdmin ==
  \/ \E caller \in Callers : AdminStats(caller)
  \/ \E caller \in Callers, rawPage \in {<<>>, <<"2">>},
        rawLimit \in {<<>>, <<"1">>}, f \in SortFilters :
       ListAdminIssues(caller, rawPage, rawLimit, f)

SpecAdmin == InitPage /\ [][NextAdmin]_vars

\* ------------------------------------------- OTP rate limit (auth.ts)

WINDOW_MS == 900000   \* windowMs, 15 * 60 * 1000
MAX_REQUESTS == 5     \* maxRequests

MaxChecks == 6
MaxSweeps == 1

\* time that passes before a call, and before a sweep: a call falls
\* exactly windowMs after the previous one when a sweep ran in between
Gaps == {0, WINDOW_MS + 1}
SweepGaps == {0, WINDOW_MS}

\* clock - userRequests.lastRequest > windowMs
WindowPassed(entry, at) == at - entry.lastRequest > WINDOW_MS

LimitExceeded_Above(entry) == entry.count > MAX_REQUESTS

\* userRequests.count >= maxRequests
LimitExceeded(entry) == entry.count >= MAX_REQUESTS

\* checkOTPRateLimit on one map: the map afterwards and the value returned
CheckOn(map, email, at) ==
  LET userRequests == map[email]
      first == [count |-> 1, lastRequest |-> at]
  IN IF userRequests = NoEntry
       THEN [map |-> [map EXCEPT ![email] = first], ok |-> TRUE]
     ELSE IF WindowPassed(userRequests, at)
       THEN [map |-> [map EXCEPT ![email] = first], ok |-> TRUE]
     ELSE IF LimitExceeded(userRequests)
       THEN [map |-> map, ok |-> FALSE]
     ELSE [map |-> [map EXCEPT ![email] =
                      [count |-> userRequests.count + 1, lastRequest |-> at]],
           ok |-> TRUE]

\* checkOTPRateLimit(email), gap milliseconds after the previous event: what
\* it does to the map and the clock
RateCheck(email, gap) ==
  /\ checks < MaxChecks
  /\ checks' = checks + 1
  /\ clock' = clock + gap
  /\ LET real == CheckOn(tracker, email, clock')
         twin == CheckOn(unswept, email, clock')
     IN /\ tracker' = real.map
        /\ unswept' = twin.map
        /\ verdict' = [email |-> email, at |-> clock', ok |-> real.ok,
                       unsweptOk |-> twin.ok]
        /\ granted' = IF real.ok
                        THEN [granted EXCEPT ![email] = Append(@, clock')]
                        ELSE granted

\* a call of checkOTPRateLimit on its own
CheckOTPRateLimit(email, gap) ==
  /\ RateCheck(email, gap)
  /\ UNCHANGED <<store, ledger, inflight, last, failed, faults, hist, life,
                 listing, board, posted, sweeps, signin>>

Expired_Any(entry, at) == at - entry.lastRequest >= 0

\* clock - data.lastRequest > windowMs, in the cleanup interval
Expired(entry, at) == at - entry.lastRequest > WINDOW_MS

\* one run of the setInterval callback, gap milliseconds after the previous
\* event (the runs are 5 minutes apart, the calls fall anywhere between them)
Sweep(gap) ==
  /\ sweeps < MaxSweeps
  /\ sweeps' = sweeps + 1
  /\ clock' = clock + gap
  /\ tracker' = [e \in Emails |->
                   IF tracker[e] # NoEntry /\ Expired(tracker[e], clock')
                     THEN NoEntry ELSE tracker[e]]
  /\ UNCHANGED <<store, ledger, inflight, last, failed, faults, hist, life,
                 listing, board, posted, unswept, granted, verdict, checks,
                 signin>>

InitRate ==
  /\ issues = {}
  /\ docs = [i \in IssueIds |-> NoDoc]
  /\ votes = [i \in IssueIds |-> 0]
  /\ votedBy = [i \in IssueIds |-> <<>>]
  /\ ledger = {}
  /\ inflight = EmptyBag
  /\ last = NoLast
  /\ failed = FALSE
  /\ faults = 0
  /\ calls = [p \in Pairs |-> 0]
  /\ overlap = FALSE
  /\ init0 = [votes |-> votes, votedBy |-> votedBy, ledger |-> ledger]
  /\ Idle

NextRate ==
  \/ \E email \in Emails, gap \in Gaps : CheckOTPRateLimit(email, gap)
  \/ \E gap \in SweepGaps : Sweep(gap)

SpecRate == InitRate /\ [][NextRate]_vars

\* ------------------------------------ OTP sign-in (send OTP, verify OTP)

OTP_TTL_MS == 600000   \* 10 * 60 * 1000 in generateOTP
OTP_LENGTH == 6        \* otp.length !== 6, /^\d{6}$/

MaxSends == 2
MaxVerifies == 2

\* the email address of the requests
Address == "a@x"

\* Math.floor(100000 + Math.random() * 900000).toString(): two of the values
Codes == {[k \in 1..OTP_LENGTH |-> "1"], [k \in 1..OTP_LENGTH |-> "2"]}

\* the otp field of a verify request: a code, five digits, a letter
Presented ==
  Codes \cup {[k \in 1..(OTP_LENGTH - 1) |-> "1"],
              [k \in 1..OTP_LENGTH |-> IF k = 1 THEN "x" ELSE "1"]}

\* time that passes before a verify request: the first request after a send
\* may fall on the moment of expiry, the second after it
VerifyGaps == {0, OTP_TTL_MS}

\* bcrypt.hash(otp, salt): not the text itself
Hash(otp) == <<"$2b$">> \o otp

\* UserSchema.pre('save'): a modified, present otp is stored hashed
PreSaveOtp(user) ==
  IF user.otp = NoOtp THEN user ELSE [user EXCEPT !.otp = Hash(@)]

GenerateOTP(user, otp, at) ==
  [user EXCEPT !.otp = otp, !.otpExpires = at + OTP_TTL_MS]

ClearOTP(user) == [user EXCEPT !.otp = NoOtp, !.otpExpires = 0]

CompareOTP_Any(user, candidateOTP) == user.otp # NoOtp

\* compareOTP: false without a stored otp, else bcrypt.compare
CompareOTP(user, candidateOTP) ==
  IF user.otp = NoOtp THEN FALSE ELSE user.otp = Hash(candidateOTP)

\* otp.length !== 6 || !/^\d{6}$/.test(otp) is false
SixDigits(otp) ==
  Len(otp) = OTP_LENGTH /\ \A k \in 1..Len(otp) : IsDigit(otp[k])

\* user.otpExpires < new Date()
OtpExpired(user, at) == user.otpExpires < at

\* POST send OTP (part_001 lines 8-101) for Address, gap milliseconds after
\* the previous event: rate limit, findByEmail, the signup or login checks,
\* generateOTP, save, sendOTPEmail
SendOtp(gap, isSignup, otp, emailSent) ==
  /\ sent < MaxSends
  /\ sent' = sent + 1
  /\ RateCheck(Address, gap)
  /\ LET status ==
           IF ~verdict'.ok THEN 429
           ELSE IF isSignup /\ account.exists THEN 409
           ELSE IF ~isSignup /\ ~account.exists THEN 404
           ELSE IF ~isSignup /\ ~account.isVerified THEN 403
           ELSE IF ~emailSent THEN 500
           ELSE 200
         user == IF isSignup
                   THEN [NoUser EXCEPT !.exists = TRUE, !.id = sent']
                   ELSE account
     IN /\ mailed' = [status |-> status]
        /\ IF status \in {200, 500}
             THEN /\ account' = PreSaveOtp(GenerateOTP(user, otp, clock'))
                  /\ issue' = issue + 1
             ELSE UNCHANGED <<account, issue>>
  /\ UNCHANGED <<store, ledger, inflight, last, failed, faults, hist, life,
                 listing, board, posted, sweeps, verifying, outcome, asked,
                 wins>>

VerifyReply(status, q) ==
  outcome' = [status |-> status, otp |-> q.otp, issue |-> q.issue,
              used |-> q.used, expired |-> q.pc = "clear"]

\* a request has been answered 200 since the OTP numbered so was saved
Used(number) == \E k \in 1..Len(wins) : wins[k].at = number

\* POST verify OTP (route.ts lines 52-104) for Address, gap milliseconds
\* after the previous event: the input checks, User.findOne with the otp
\* fields, the checks of the user and of the expiry; the request then waits
\* for user.save() (expired) or for compareOTP
VerifyRead(gap, otp) ==
  /\ asked < MaxVerifies
  /\ asked' = asked + 1
  /\ clock' = clock + gap
  /\ LET user == account
         held == [n |-> asked', otp |-> otp, seen |-> user, at |-> clock',
                  issue |-> issue, used |-> Used(issue),
                  pc |-> IF OtpExpired(user, clock') THEN "clear" ELSE "compare"]
     IN IF \/ ~SixDigits(otp)
           \/ ~user.exists
           \/ user.otp = NoOtp \/ user.otpExpires = 0
          THEN /\ VerifyReply(400, [held EXCEPT !.pc = "none"])
               /\ verifying' = verifying
          ELSE /\ verifying' = verifying \cup {held}
               /\ outcome' = outcome
  /\ UNCHANGED <<store, ledger, inflight, last, failed, faults, hist, life,
                 listing, board, posted, tracker, unswept, granted, verdict,
                 checks, sweeps, account, mailed, sent, issue, wins>>

\* the document a request loaded is still in the store
Stored(user) == account.exists /\ account.id = user.id

\* user.save() of a loaded document: the modified paths are written to the
\* document of that _id; when it is gone the save throws
\* DocumentNotFoundError
SaveUser(changed) ==
  IF Stored(changed)
    THEN account' = [account EXCEPT !.isVerified = changed.isVerified,
                                    !.otp = changed.otp,
                                    !.otpExpires = changed.otpExpires]
    ELSE account' = account

\* POST verify OTP (route.ts lines 94-160), the rest of a request: clearOTP
\* and save of the expired OTP (400), or compareOTP and then 400, or
\* isVerified, clearOTP, save, the token and the cookie (200); a save that
\* throws is answered 500
VerifySave ==
  \E q \in verifying :
    /\ clock' = clock
    /\ verifying' = verifying \ {q}
    /\ IF q.pc = "clear"
         THEN /\ SaveUser(ClearOTP(q.seen))
              /\ VerifyReply(IF Stored(q.seen) THEN 400 ELSE 500, q)
              /\ wins' = wins
       ELSE IF ~CompareOTP(q.seen, q.otp)
         THEN /\ VerifyReply(400, q)
              /\ UNCHANGED <<account, wins>>
         ELSE /\ SaveUser(ClearOTP([q.seen EXCEPT !.isVerified = TRUE]))
              /\ VerifyReply(IF Stored(q.seen) THEN 200 ELSE 500, q)
              /\ wins' = IF Stored(q.seen)
                           THEN Append(wins, [read |-> q.issue, at |-> issue])
                           ELSE wins
    /\ UNCHANGED <<store, ledger, inflight, last, failed, faults, hist, life,
                   listing, board, posted, tracker, unswept, granted, verdict,
                   checks, sweeps, mailed, sent, asked, issue>>

\* the TTL index { otpExpires: 1 }, expireAfterSeconds 0: the store deletes
\* a User document whose otpExpires has passed
TtlDelete ==
  /\ account.exists
  /\ account.otpExpires # 0
  /\ account.otpExpires <= clock
  /\ account' = NoUser
  /\ UNCHANGED <<store, ledger, inflight, last, failed, faults, hist, life,
                 listing, board, posted, limiter, verifying, outcome, mailed,
                 sent, asked, issue, wins>>

InitOtp ==
  /\ issues = {}
  /\ docs = [i \in IssueIds |-> NoDoc]
  /\ votes = [i \in IssueIds |-> 0]
  /\ votedBy = [i \in IssueIds |-> <<>>]
  /\ ledger = {}
  /\ inflight = EmptyBag
  /\ last = NoLast
  /\ failed = FALSE
  /\ faults = 0
  /\ calls = [p \in Pairs |-> 0]
  /\ overlap = FALSE
  /\ init0 = [votes |-> votes, votedBy |-> votedBy, ledger |-> ledger]
  /\ board = NoBoard /\ posted = NoPost /\ RateIdle
  /\ puts = {} /\ gone = {} /\ lastOp = NoOp /\ ops = 0 /\ listing = NoListing
  /\ \E user \in {NoUser, [NoUser EXCEPT !.exists = TRUE, !.isVerified = TRUE]} :
       SigninStart(user)

NextOtp ==
  \/ \E isSignup \in BOOLEAN, otp \in Codes, emailSent \in BOOLEAN :
       SendOtp(0, isSignup, otp, emailSent)
  \/ \E gap \in VerifyGaps, otp \in Presented : VerifyRead(gap, otp)
  \/ VerifySave
  \/ TtlDelete

SpecOtp == InitOtp /\ [][NextOtp]_vars

\* the vote toggle with concurrent deletes of issues
NextDel ==
  \/ Next
  \/ \E u \in Users, role \in Roles, i \in IssueIds : DeleteIssue(u, role, i)

SpecDel == Init /\ [][NextDel]_vars

TypeOK ==
  /\ issues \subseteq IssueIds
  /\ \A i \in IssueIds : votes[i] \in Int
  /\ \A q \in Running : q.attempts \in 1..MaxAttempts
  /\ BagCardinality(inflight) <= MaxCalls

\* ------------------------------------------------------------ properties
Quiescent == inflight = EmptyBag

Range(s) == {s[k] : k \in 1..Len(s)}

\* the <<userId, issueId>> pairs of the rows of a ledger
RowPairs(l) == {<<row.userId, row.issueId>> : row \in l}

RowCount(l, u, i) == Cardinality(Matching(l, u, i))

InitVoted(p) == HasRow(init0.ledger, p[1], p[2])

\* only calls by pair p were started, on an existing issue, and all are over
OnlyCallsOf(p) ==
  /\ p[2] \in issues
  /\ calls[p] = TotalCalls
  /\ Quiescent

\* no store error was injected and no call was answered with a failure
AllSucceeded ==
  /\ faults = 0
  /\ ~failed

\* votes, the votedBy set and the ledger rows are those of the initial state
StoreAsInitially ==
  /\ votes = init0.votes
  /\ \A i \in IssueIds : Range(votedBy[i]) = Range(init0.votedBy[i])
  /\ RowPairs(ledger) = RowPairs(init0.ledger)

\* C1: for every issue, votes equals the number of entries of votedBy and
\* votedBy holds no identity twice, in every state in which no toggle request
\* is in flight (no store error injected).
C1_VotesEqualsVotedBy ==
  (Quiescent /\ faults = 0) =>
    \A i \in issues : votes[i] = Len(votedBy[i]) /\ NoDuplicates(votedBy[i])

\* C2: the ledger holds at most one Vote row per (voter, issue) pair in every
\* reachable state.
C2_AtMostOneVoteRow == \A p \in Pairs : RowCount(ledger, p[1], p[2]) <= 1

\* C2 witness: a create of a pair that already has a row was rejected by the
\* index while the row is in the ledger.
C2_Witness ==
  \E q \in Running : q.pc = "catchDelete" /\ RowCount(ledger, q.user, q.issue) = 1

\* C3: in every state a reader can observe, a Vote row for (voter, issue)
\* exists exactly when voter is in the issue's votedBy.
C3_LedgerAndCounterAsUnit ==
  faults = 0 =>
    \A p \in Pairs : p[2] \in issues =>
      (HasRow(ledger, p[1], p[2]) <=> Includes(votedBy[p[2]], p[1]))

\* C4: two toggle calls of the same voter on the same issue, no prior vote,
\* nothing else running: once both are over (both answered with a success),
\* votes differs from its initial value by 0 or 1 and the ledger holds at
\* most one row of the pair.
C4_TwoConcurrentToggles ==
  \A p \in Pairs :
    (OnlyCallsOf(p) /\ calls[p] = 2 /\ ~InitVoted(p) /\ AllSucceeded) =>
      /\ votes[p[2]] - init0.votes[p[2]] \in {0, 1}
      /\ RowCount(ledger, p[1], p[2]) <= 1

\* C5: two toggle calls of one voter on one issue, run one after the other
\* with nothing interleaved and no store error, bring votes, the votedBy set
\* and the ledger rows back to the initial ones; a single call from the
\* not-voted state moves votes from n to n+1, adds the voter and its row.
C5_DoubleToggleRestores ==
  \A p \in Pairs :
    (OnlyCallsOf(p) /\ ~overlap /\ faults = 0) =>
      /\ calls[p] = 2 => StoreAsInitially
      /\ (calls[p] = 1 /\ ~InitVoted(p)) =>
           /\ votes[p[2]] = init0.votes[p[2]] + 1
           /\ Range(votedBy[p[2]]) = Range(init0.votedBy[p[2]]) \cup {p[1]}
           /\ RowPairs(ledger) = RowPairs(init0.ledger) \cup {p}

\* C5 witness: a voter who had voted has toggled twice in succession, both
\* calls answered 200.
C5_Witness ==
  \E p \in Pairs :
    /\ OnlyCallsOf(p) /\ ~overlap /\ faults = 0
    /\ calls[p] = 2 /\ InitVoted(p)
    /\ init0.votes[p[2]] = 2
    /\ last.status = 200 /\ ~failed

\* the store after k toggles of pair p run one after the other
VotedAfter(p, k) == IF k % 2 = 0 THEN InitVoted(p) ELSE ~InitVoted(p)

\* C6: k concurrent toggle calls of one voter on one issue end, for every
\* interleaving, in the state that the calls reach when run one after the
\* other: the pair's row, the voter's votedBy entry and votes follow the
\* parity of k.
C6_SameFinalStateForEveryInterleaving ==
  \A p \in Pairs :
    (OnlyCallsOf(p) /\ AllSucceeded) =>
      /\ HasRow(ledger, p[1], p[2]) <=> VotedAfter(p, calls[p])
      /\ Includes(votedBy[p[2]], p[1]) <=> VotedAfter(p, calls[p])
      /\ votes[p[2]] = init0.votes[p[2]]
                        + (IF VotedAfter(p, calls[p]) = InitVoted(p) THEN 0
                           ELSE IF InitVoted(p) THEN -1 ELSE 1)

\* C7: the votes counter of every issue is >= 0 in every reachable state.
C7_VotesNeverNegative == faults = 0 => \A i \in IssueIds : votes[i] >= 0

C9_FailedToggleLeavesNoEffect ==
  (TotalCalls = 1 /\ Quiescent /\ last.status = 500) =>
    /\ StoreAsInitially
    /\ votedBy = init0.votedBy

\* C10: the unit of work is run at most twice (one retry), and a request
\* answered with a success has applied the ledger toggle at most once.
C10_RetryOnceToggleOnce ==
  /\ \A q \in Running : q.attempts <= 2
  /\ last.status = 200 => last.toggles <= 1

\* C12: a toggle answered with success reports hasVoted = TRUE exactly when
\* the call's own outcome (voteResult.action) was 'added', and reports as
\* votes the counter value that the call's own update produced, also when
\* other toggles on the issue run concurrently (no store error injected).
C12_ResponseReportsOwnOutcome ==
  (last.status = 200 /\ faults = 0) =>
    /\ last.hasVoted <=> (last.action = "added")
    /\ last.votes = last.own

\* C11: a vote toggle on an issue that does not exist creates no ledger row
\* for it and is answered with 404, also when the issue was deleted after
\* the toggle's findById had found it (no store error injected).
C11_ToggleOnMissingIssue ==
  [][\A i \in IssueIds \ issues :
       faults' = 0 =>
       /\ \A u \in Users : HasRow(ledger', u, i) => HasRow(ledger, u, i)
       /\ (last' # last /\ last'.issue = i) => last'.status = 404]_vars

\* C13: after every create and every update, resolvedAt of every issue is
\* set exactly when its status is 'resolved', and an update that leaves the
\* status unchanged leaves resolvedAt unchanged.
C13_ResolvedAtIffResolved ==
  [][\A i \in issues' :
       /\ (docs'[i].resolvedAt # 0) <=> (docs'[i].status = "resolved")
       /\ (i \in issues /\ docs'[i].status = docs[i].status)
            => docs'[i].resolvedAt = docs[i].resolvedAt]_vars

\* the step is one of an update request: its findById (answered 404 or 403,
\* or passed on to the save) or its save
PutStep ==
  \/ puts' # puts
  \/ ops' = ops + 1 /\ lastOp'.kind = "put" /\ lastOp'.code \in {403, 404}

\* C14: an issue update by an owner or an administrator, whatever its body
\* carries (votes, votedBy and resolvedAt included), leaves votes and votedBy
\* of every issue unchanged, and resolvedAt is left as it was, cleared or
\* stamped with the time of the save, never set from the body.
C14_UpdateLeavesSystemFields ==
  [][PutStep =>
       /\ votes' = votes
       /\ votedBy' = votedBy
       /\ \A i \in IssueIds :
            docs'[i].resolvedAt \in {docs[i].resolvedAt, 0, SaveTime}]_vars

C14_Witness ==
  /\ lastOp.kind = "put"
  /\ lastOp.code = 200
  /\ lastOp.sys
  /\ lastOp.want = "resolved"
  /\ lastOp.issue \in issues
  /\ votes[lastOp.issue] = 2
  /\ docs[lastOp.issue].resolvedAt \in 1..SaveTime

\* C15: status and assignedTo of an issue change only in an update request
\* of an administrator, title and category only in an update request of the
\* owner or an administrator, an issue is deleted only by a delete request
\* of the owner or an administrator, and a request answered 403 leaves every
\* issue and the ledger as they were.
C15_OnlyPermittedRequestsChange ==
  [][/\ \A i \in issues \cap issues' :
          /\ (docs'[i].status # docs[i].status
              \/ docs'[i].assignedTo # docs[i].assignedTo)
               => /\ lastOp'.kind = "put" /\ lastOp'.issue = i
                  /\ lastOp'.code = 200 /\ lastOp'.isAdmin
          /\ (docs'[i].title # docs[i].title
              \/ docs'[i].category # docs[i].category)
               => /\ lastOp'.kind = "put" /\ lastOp'.issue = i
                  /\ lastOp'.code = 200
                  /\ lastOp'.isOwner \/ lastOp'.isAdmin
     /\ \A i \in issues \ issues' :
          /\ lastOp'.kind = "delete" /\ lastOp'.issue = i
          /\ lastOp'.code = 200
          /\ lastOp'.isOwner \/ lastOp'.isAdmin
     /\ (ops' = ops + 1 /\ puts' = puts /\ lastOp'.code = 403)
          => UNCHANGED <<store, docs, ledger>>]_vars

\* the owner, not an administrator, sent status 'resolved' with a new title
\* and was refused; the title is the old one
C15_Witness ==
  /\ lastOp.kind = "put"
  /\ lastOp.code = 403
  /\ lastOp.isOwner /\ ~lastOp.isAdmin
  /\ lastOp.want = "resolved"
  /\ docs[lastOp.issue].title = Roads
  /\ docs[lastOp.issue].status = "pending"
  /\ ops = MaxOps

\* C16: whenever the save of an update request changes the stored status of
\* an issue, the request is answered with success and the stored status is
\* the requested one, whether the notification was delivered, returned
\* failure or threw; a notification is emitted only by a successful request
\* whose requested status differs from the status it had read.
C16_NotificationNeverFailsUpdate ==
  [][(puts' # puts /\ puts' \subseteq puts) =>
       /\ (\E i \in IssueIds : docs'[i].status # docs[i].status)
            => /\ lastOp'.code = 200
               /\ docs'[lastOp'.issue].status = lastOp'.want
       /\ lastOp'.mail # "none"
            => /\ lastOp'.code = 200
               /\ Truthy(lastOp'.want)
               /\ lastOp'.want # lastOp'.old]_vars

\* the notification threw, the request succeeded and the issue is resolved
C16_Witness ==
  /\ lastOp.kind = "put"
  /\ lastOp.mail = "threw"
  /\ lastOp.code = 200
  /\ lastOp.want = "resolved"
  /\ lastOp.old = "pending"
  /\ docs[lastOp.issue].status = "resolved"
  /\ docs[lastOp.issue].resolvedAt # 0

\* C17: the deletion of an issue leaves every ledger row in place, the rows
\* that reference the deleted issue included, and the voting statistics
\* count them as before.
C17_DeleteLeavesVoteRows ==
  [][\A i \in issues \ issues' :
       /\ \A row \in ledger : row \in ledger'
       /\ {row \in ledger' : row.issueId = i}
            = {row \in ledger : row.issueId = i}
       /\ GetVotingStats(ledger') = GetVotingStats(ledger)]_vars

\* X was deleted, its two rows are in the ledger and in the statistics
C17_Witness ==
  /\ "X" \in gone
  /\ "X" \notin issues
  /\ HasRow(ledger, "A", "X") /\ HasRow(ledger, "B", "X")
  /\ GetVotingStats(ledger) =
       [totalVotes |-> 2, uniqueVoters |-> 2, uniqueIssues |-> 1]

\* C18: for every answered issue-list query whose filters match N issues,
\* with effective limit L and effective page P, the metadata has
\* totalItems = N, totalPages = ceil(N/L) (the least k with k * L >= N),
\* hasNextPage = (P < totalPages) and hasPrevPage = (P > 1), in the public
\* and in the admin list
C18_PaginationMetadata ==
  (listing.list # "none" /\ listing.code = 200) =>
    LET N == Cardinality(FindQuery(listing.filters))
        L == listing.itemsPerPage
        P == listing.currentPage
        T == listing.totalPages
    IN /\ listing.totalItems = N
       /\ (IsNum(L) /\ L.v >= 1) =>
            /\ IsNum(T)
            /\ T.v * L.v >= N
            /\ (T.v - 1) * L.v < N
            /\ IsNum(P) => /\ listing.hasNextPage = (P.v < T.v)
                           /\ listing.hasPrevPage = (P.v > 1)

\* C19: for every supplied page and limit the effective page is an integer
\* >= 1 and the effective limit an integer in 1..50, a page below 1 becomes 1
\* and a limit outside 1..50 becomes 10, and the skip offset
\* (page - 1) * limit is not negative
C19_PaginationInputClamped ==
  listing.list # "none" =>
    LET L == listing.itemsPerPage
        P == listing.currentPage
        p0 == ParseInt(listing.raw.page)
        l0 == ParseInt(listing.raw.limit)
    IN /\ IsNum(P) /\ P.v >= 1
       /\ IsNum(L) /\ L.v >= 1 /\ L.v <= MAX_LIMIT
       /\ (IsNum(p0) /\ p0.v < 1) => P = Num(1)
       /\ (IsNum(l0) /\ (l0.v < 1 \/ l0.v > MAX_LIMIT)) =>
            L = Num(DEFAULT_LIMIT)
       /\ (P.v - 1) * L.v >= 0

\* C20: for every combination of filters, the totalItems of an answered
\* issue-list query is the number of issues that satisfy all the supplied
\* filters, the set its page of issues is drawn from, and totalPages is
\* computed from that number
C20_CountUsesSameFilters ==
  (listing.list # "none" /\ listing.code = 200) =>
    /\ listing.totalItems = Cardinality(FindQuery(listing.filters))
    /\ listing.totalPages =
         CeilDiv(Cardinality(FindQuery(listing.filters)),
                 listing.itemsPerPage)
    /\ \A n \in DOMAIN listing.data :
         listing.data[n] \in FindQuery(listing.filters)

\* C21: the page returned by the filter query holds exactly the issues that
\* satisfy every supplied filter, ordered by sortBy (createdAt when absent)
\* ascending when sortOrder is 'asc' and descending otherwise, restricted to
\* the positions (page - 1) * limit + 1 .. min(page * limit, N) of that
\* order, so it never holds more than limit issues
C21_PageOfTheOrdering ==
  (listing.list = "public" /\ listing.code = 200) =>
    LET f == listing.filters
        M == {i \in issues : /\ Truthy(f.status) => docs[i].status = f.status
                             /\ Truthy(f.category) =>
                                  docs[i].category = f.category
                             /\ f.search # <<>> => docs[i].title = f.search
                             /\ Truthy(f.location) =>
                                  docs[i].location = f.location}
        N == Cardinality(M)
        P == listing.currentPage
        L == listing.itemsPerPage
        by == IF f.sortBy = "votes" THEN "votes" ELSE "createdAt"
        InOrder(s) ==
          \A a, b \in DOMAIN s :
            a < b => IF f.sortOrder = "asc"
                       THEN SortKey(s[a], by) <= SortKey(s[b], by)
                       ELSE SortKey(s[a], by) >= SortKey(s[b], by)
        upto == IF P.v * L.v < N THEN P.v * L.v ELSE N
    IN /\ \A n \in DOMAIN listing.data : listing.data[n] \in M
       /\ IsNum(L) => Len(listing.data) <= L.v
       /\ (IsNum(P) /\ IsNum(L)) =>
            \E s \in Orderings(M) :
              /\ InOrder(s)
              /\ listing.data = SubSeq(s, (P.v - 1) * L.v + 1, upto)

\* C22: for every set of stored issues, optionally restricted to one
\* reporter, getDashboardStats returns pendingIssues, inProgressIssues and
\* resolvedIssues equal to the number of issues in scope with that status and
\* totalIssues equal to the number of issues in scope, so totalIssues is the
\* sum of the three
C22_StatusBreakdown ==
  (board.op # "none" /\ board.code = 200) =>
    LET scope == {i \in issues :
                    board.userId # "absent" =>
                      docs[i].reportedBy = board.userId}
        With(status) == Cardinality({i \in scope : docs[i].status = status})
    IN /\ board.pendingIssues = With("pending")
       /\ board.inProgressIssues = With("in-progress")
       /\ board.resolvedIssues = With("resolved")
       /\ board.totalIssues = Cardinality(scope)
       /\ board.totalIssues = board.pendingIssues + board.inProgressIssues
                                + board.resolvedIssues

C22_Witness ==
  /\ board.op = "reporter"
  /\ board.userId = "B"
  /\ board.pendingIssues > 0
  /\ board.inProgressIssues > 0
  /\ board.resolvedIssues > 1
  /\ board.totalIssues < Cardinality(issues)

\* C23: the resolutionRate of the admin statistics is resolved / total * 100
\* rounded to the nearest integer (a half rounds up) for every store
\* content, 0 when there are no issues, an integer in 0..100, and 60 with
\* 6 resolved and 4 pending issues
C23_ResolutionRate ==
  (board.op = "admin" /\ board.code = 200) =>
    LET total == Cardinality(issues)
        resolved == Cardinality({i \in issues : docs[i].status = "resolved"})
        pending == Cardinality({i \in issues : docs[i].status = "pending"})
        rate == board.resolutionRate
    IN /\ rate \in 0..100
       /\ total = 0 => rate = 0
       \* rate - 1/2 <= 100 * resolved / total < rate + 1/2
       /\ total > 0 => /\ (2 * rate - 1) * total <= 200 * resolved
                       /\ 200 * resolved < (2 * rate + 1) * total
       /\ (resolved = 6 /\ pending = 4 /\ total = 10) => rate = 60

\* C24: a create request whose coordinates are out of range, or that
\* violates the constraint on title (5-100 characters), description
\* (10-1000), category or priority (enum) or address (at most 200), is
\* answered 400 and stores no issue; every issue that is stored starts with
\* status pending, votes 0 and an empty votedBy
C24_CreateValidates ==
  [][(ops' = ops + 1 /\ lastOp'.kind = "create") =>
         LET body == posted'.body
             lng == body.coordinates[1]
             lat == body.coordinates[2]
             violates ==
               \/ Len(body.coordinates) # 2
               \/ lng < -180 \/ lng > 180 \/ lat < -90 \/ lat > 90
               \/ Len(Trim(body.title)) < 5 \/ Len(Trim(body.title)) > 100
               \/ Len(Trim(body.description)) < 10
               \/ Len(Trim(body.description)) > 1000
               \/ body.category \notin Categories
               \/ body.priority \notin Priorities \cup {"absent"}
               \/ Len(Trim(body.address)) > 200
         IN /\ violates => /\ posted'.code = 400
                           /\ UNCHANGED <<store, docs, ledger>>
            /\ \A i \in issues' \ issues :
                 /\ docs'[i].status = "pending"
                 /\ votes'[i] = 0
                 /\ votedBy'[i] = <<>>]_vars

C24_Witness ==
  /\ posted.code = 400
  /\ posted.body.coordinates = <<200, 45>>
  /\ lastOp.kind = "create"
  /\ issues # {}

\* C25: every stored issue carries at most 5 image URLs, each matching the
\* image-extension pattern: a create request with more than 5 images, or
\* with an image URL that does not match, is answered 400 and stores no
\* issue
C25_ImagesBounded ==
  /\ \A i \in issues :
       /\ Len(docs[i].images) <= 5
       /\ \A k \in DOMAIN docs[i].images : MatchesImageUrl(docs[i].images[k])
  /\ (posted # NoPost /\ Len(posted.body.images) > 5) => posted.code = 400

\* C26: an authenticated caller who is not an administrator and calls the
\* admin statistics or the admin issue list is answered 403, which differs
\* from the answer to an unauthenticated caller, and receives no data
C26_NonAdminForbidden ==
  /\ (board.op = "admin" /\ board.caller = "user") =>
       /\ board.code = 403
       /\ <<board.code, board.message>>
            # <<AdminErrorStatus(RequireAuth("none")), RequireAuth("none")>>
       /\ board.totalIssues = 0 /\ board.totalVotes = 0
  /\ (listing.list = "admin" /\ listing.raw.caller = "user") =>
       /\ listing.code = 403
       /\ <<listing.code, listing.message>>
            # <<AdminErrorStatus(RequireAuth("none")), RequireAuth("none")>>
       /\ listing.data = <<>>

\* C27: among the checkOTPRateLimit calls for one email that return true, no
\* six fall within 15 minutes; a call that returns false leaves the entry as
\* it was; a call made more than 15 minutes after the last call that
\* returned true (or with no such call before) returns true
C27_RateLimited ==
  [][\A email \in Emails, gap \in Gaps :
       CheckOTPRateLimit(email, gap) =>
         /\ \A e \in Emails : \A k \in 1..(Len(granted'[e]) - MAX_REQUESTS) :
              granted'[e][k + MAX_REQUESTS] - granted'[e][k] > 15 * 60 * 1000
         /\ ~verdict'.ok => tracker' = tracker
         /\ (\/ granted[email] = <<>>
             \/ clock' - granted[email][Len(granted[email])] > 15 * 60 * 1000)
              => verdict'.ok]_vars

C27_Witness ==
  /\ Len(granted["a@x"]) = MAX_REQUESTS + 1
  /\ granted["b@x"] = <<>>
  /\ verdict.email = "a@x" /\ verdict.ok
  /\ tracker["a@x"].count = 1
  /\ sweeps > 0

\* C30: every checkOTPRateLimit call returns what it would return had no
\* cleanup sweep ever run
C30_SweepTransparent ==
  verdict # NoVerdict => verdict.ok = verdict.unsweptOk

C30_Witness ==
  /\ verdict # NoVerdict
  /\ verdict.ok
  /\ sweeps > 0
  /\ tracker # unswept
  /\ \E e \in Emails : tracker[e] = NoEntry /\ unswept[e] # NoEntry
  /\ tracker[verdict.email].count > 1

C29_OtpSingleUse ==
  [][LET Done == verifying \ verifying'
         Begun == verifying' \ verifying
     IN /\ \A q \in Done :
             /\ outcome'.status = 200 =>
                  /\ account'.exists /\ account'.isVerified
                  /\ account'.otp = NoOtp /\ account'.otpExpires = 0
                  /\ q.seen.otp = Hash(q.otp)
                  /\ q.seen.otpExpires >= q.at
             /\ q.pc = "clear" =>
                  /\ outcome'.status # 200
                  /\ (account'.exists /\ account'.id = q.seen.id) =>
                       (account'.otp = NoOtp /\ account'.otpExpires = 0)
        /\ (asked' = asked + 1 /\ Used(issue)) =>
             /\ outcome'.status = 400
             /\ Begun = {}
        /\ \A q \in Begun :
             (account.otpExpires < clock') => q.pc = "clear"
        /\ (account'.isVerified /\ ~account.isVerified) =>
             (Done # {} /\ outcome'.status = 200)]_vars

C29_Witness ==
  /\ outcome.status = 400
  /\ outcome.used
  /\ outcome.otp \in Codes
  /\ Len(wins) = 1
  /\ account.isVerified
  /\ account.otp = NoOtp
  /\ issue = 1

====
